---- MODULE Spec2Model ----
(***************************************************************************)
(* Model of src/main/agent/runtime.ts: the checkpointer singleton          *)
(* (getCheckpointer / closeRuntime), model resolution (getModelInstance)   *)
(* and runtime assembly (createAgentRuntime).                              *)
(*                                                                         *)
(* JavaScript runs one task at a time; an async function runs              *)
(* synchronously up to its first await and is resumed later, after the     *)
(* awaited promise has settled.  Every action below is one such            *)
(* uninterrupted stretch of code, or the settling of a promise by the      *)
(* store (SqlJsSaver.initialize / SqlJsSaver.close), whose outcome is      *)
(* outside runtime.ts and is left open.                                    *)
(***************************************************************************)
EXTENDS Integers, Sequences, FiniteSets, Bags, TLC

\* Number of calls (getCheckpointer, createAgentRuntime, closeRuntime) the
\* host makes over one run.
MaxCalls == 5
\* Number of calls that may be in flight at the same time.
MaxActive == 2

\* The backend factory under test is invoked at most MaxInvocations times, each
\* time with one of NumContexts session contexts.
MaxInvocations == 3
NumContexts == 3
Contexts == 1..NumContexts

\* Every store is constructed by some call, so there are at most MaxCalls.
Stores == 1..MaxCalls

VARIABLES
  checkpointer,   \* the module-level singleton: 0 is null, else a store id
  nStores,        \* number of SqlJsSaver instances constructed so far
  initCalls,      \* number of initialize() invocations so far
  initState,      \* per store: "none" | "pending" | "ok" | "failed"
  closeCalls,     \* per store: number of close() invocations
  closed,         \* per store: some close() on it has resolved
  calls,          \* the calls in flight: a bag of call records (see NewCall)
  nCalls,         \* number of calls started so far
  raced,          \* some getCheckpointer() started while another awaited initialize()
  overlapped,     \* some call started while another call was in flight
  closeStarted,   \* some closeRuntime() has been called
  returnedVals,   \* the values getCheckpointer() has returned so far
  released,       \* the stores whose closeRuntime() has completed
  apiKeys,        \* configuration: provider -> key (getApiKey)
  defaultModel,   \* configuration: getDefaultModel()
  resolveIn,      \* the modelId last handed to getModelInstance on its own
  resolveOut,     \* and its outcome
  factory,        \* the backend factory under test (NoFactory: not built yet)
  invocations     \* its invocations so far: the context passed, the backend returned

storeVars == <<checkpointer, nStores, initCalls, initState, closeCalls, closed>>
histVars == <<nCalls, raced, overlapped, closeStarted, returnedVals, released>>
cfgVars == <<apiKeys, defaultModel>>
resVars == <<resolveIn, resolveOut>>
facVars == <<factory, invocations>>
vars == <<storeVars, calls, histVars, cfgVars, resVars, facVars>>

----------------------------------------------------------------------------
\* JavaScript values: strings are sequences of characters.

Undefined == [t |-> "undefined", v |-> <<>>]
Str(s) == [t |-> "string", v |-> s]

\* !!x for x : string | undefined
Truthy(x) == x.t = "string" /\ Len(x.v) > 0

\* String.prototype.startsWith
startsWith(s, p) == Len(s) >= Len(p) /\ SubSeq(s, 1, Len(p)) = p

claude == <<"c", "l", "a", "u", "d", "e">>
gpt == <<"g", "p", "t">>
gemini == <<"g", "e", "m", "i", "n", "i">>

NoKey == <<>>
Returned(k, m, key, looked, dflt) ==
  [out |-> "return", kind |-> k, model |-> m, apiKey |-> key, error |-> "",
   lookups |-> looked, usedDefault |-> dflt]
Thrown(msg, m, looked, dflt) ==
  [out |-> "throw", kind |-> "Error", model |-> m, apiKey |-> NoKey, error |-> msg,
   lookups |-> looked, usedDefault |-> dflt]

\* getModelInstance without the `gemini` branch: such an identifier falls
\* through to the bare string.
getModelInstanceNoGemini(modelId, keys, dflt) ==
  LET useDflt == ~Truthy(modelId)
      m == IF useDflt THEN dflt ELSE modelId.v
  IN IF startsWith(m, claude)
     THEN LET apiKey == keys["anthropic"]
          IN IF ~Truthy(apiKey)
             THEN Thrown("Anthropic API key not configured", m, <<"anthropic">>, useDflt)
             ELSE Returned("ChatAnthropic", m, apiKey.v, <<"anthropic">>, useDflt)
     ELSE IF startsWith(m, gpt)
     THEN LET apiKey == keys["openai"]
          IN IF ~Truthy(apiKey)
             THEN Thrown("OpenAI API key not configured", m, <<"openai">>, useDflt)
             ELSE Returned("ChatOpenAI", m, apiKey.v, <<"openai">>, useDflt)
     ELSE Returned("string", m, NoKey, <<>>, useDflt)

\* getModelInstance without the `if (!apiKey) throw`: the client is constructed
\* with whatever getApiKey returned.
getModelInstanceNoKeyCheck(modelId, keys, dflt) ==
  LET useDflt == ~Truthy(modelId)
      m == IF useDflt THEN dflt ELSE modelId.v
  IN IF startsWith(m, claude)
     THEN Returned("ChatAnthropic", m, keys["anthropic"].v, <<"anthropic">>, useDflt)
     ELSE IF startsWith(m, gpt)
     THEN Returned("ChatOpenAI", m, keys["openai"].v, <<"openai">>, useDflt)
     ELSE IF startsWith(m, gemini)
     THEN Thrown("Gemini support coming soon", m, <<>>, useDflt)
     ELSE Returned("string", m, NoKey, <<>>, useDflt)

\* getModelInstance(modelId) with the configuration (keys, dflt) it reads.
getModelInstance(modelId, keys, dflt) ==
  LET useDflt == ~Truthy(modelId)
      m == IF useDflt THEN dflt ELSE modelId.v
  IN IF startsWith(m, claude)
     THEN LET apiKey == keys["anthropic"]
          IN IF ~Truthy(apiKey)
             THEN Thrown("Anthropic API key not configured", m, <<"anthropic">>, useDflt)
             ELSE Returned("ChatAnthropic", m, apiKey.v, <<"anthropic">>, useDflt)
     ELSE IF startsWith(m, gpt)
     THEN LET apiKey == keys["openai"]
          IN IF ~Truthy(apiKey)
             THEN Thrown("OpenAI API key not configured", m, <<"openai">>, useDflt)
             ELSE Returned("ChatOpenAI", m, apiKey.v, <<"openai">>, useDflt)
     ELSE IF startsWith(m, gemini)
     THEN Thrown("Gemini support coming soon", m, <<>>, useDflt)
     ELSE Returned("string", m, NoKey, <<>>, useDflt)

\* Before getModelInstance has run in a call.
NoModel == [out |-> "none", kind |-> "", model |-> <<>>, apiKey |-> NoKey, error |-> "",
            lookups |-> <<>>, usedDefault |-> FALSE]

\* The characters of the message of each Error that getModelInstance throws.
MessageText(msg) ==
  CASE msg = "Anthropic API key not configured" ->
         <<"A", "n", "t", "h", "r", "o", "p", "i", "c", " ", "A", "P", "I", " ", "k", "e", "y", " ", "n", "o", "t", " ", "c", "o", "n", "f", "i", "g", "u", "r", "e", "d">>
    [] msg = "OpenAI API key not configured" ->
         <<"O", "p", "e", "n", "A", "I", " ", "A", "P", "I", " ", "k", "e", "y", " ", "n", "o", "t", " ", "c", "o", "n", "f", "i", "g", "u", "r", "e", "d">>
    [] msg = "Gemini support coming soon" ->
         <<"G", "e", "m", "i", "n", "i", " ", "s", "u", "p", "p", "o", "r", "t", " ", "c", "o", "m", "i", "n", "g", " ", "s", "o", "o", "n">>
    [] OTHER -> <<>>

----------------------------------------------------------------------------
\* The store's lifecycle, read off what has been invoked on it and settled.

StoreState(s) ==
  IF s = 0 THEN "null"
  ELSE IF closed[s] THEN "Closed"
  ELSE IF initState[s] = "ok" THEN "Ready"
  ELSE IF initState[s] = "pending" THEN "Initializing"
  ELSE IF initState[s] = "failed" THEN "InitFailed"
  ELSE "Unconstructed"

----------------------------------------------------------------------------
\* Calls in flight.  A call stays in flight until the host has received its
\* outcome (Receive).

Null == [t |-> "null", v |-> <<>>]

\* A call of kind k ("get" | "create" | "close") that has not run yet.
\*   pc        where the call stands
\*   target    the store whose promise the call awaits (0: none)
\*   ret       <<>> or <<v>>, the value getCheckpointer() returned to the call
\*   retState  the lifecycle state of that value at the moment it was returned
\*   err       the failure the call (or its getCheckpointer()) ended with
\*   model     what getModelInstance produced
\*   workspace options.workspacePath after defaulting
\*   agent     <<>> or <<args>>, the arguments createDeepAgent was called with
\*   trace     the steps of createAgentRuntime, in execution order
NewCall(k) ==
  [kind |-> k, pc |-> "start", target |-> 0, ret |-> <<>>, retState |-> "none",
   err |-> "", model |-> NoModel, workspace |-> Null, agent |-> <<>>, trace |-> <<>>]

InFlight == BagToSet(calls)
AwaitingInit == {r \in InFlight : r.pc = "awaitInit" /\ initState[r.target] = "pending"}

\* The call r goes on as record q (r is not in the bag when it is new).
Becomes(r, q) == (calls (-) SetToBag({r})) (+) SetToBag({q})

\* Where a call stands once its getCheckpointer() has returned or thrown:
\* a direct call has settled, createAgentRuntime is still to be resumed.
AfterGet(k, failed) ==
  IF k = "create"
  THEN IF failed THEN "getFailed" ELSE "gotCheckpointer"
  ELSE IF failed THEN "rejected" ELSE "resolved"

\* What createBackendFactory(workspacePath) captures.
createBackendFactory(workspacePath) == [workspacePath |-> workspacePath]

NoFactory == [workspacePath |-> Undefined]

\* new FilesystemBackend({rootDir, virtualMode: true}) and
\* new StateBackend(stateAndStore), as the n-th backend constructed.
FilesystemBackend(rootDir, n) ==
  [kind |-> "FilesystemBackend", rootDir |-> rootDir, virtualMode |-> TRUE,
   stateAndStore |-> 0, id |-> n]
StateBackend(stateAndStore, n) ==
  [kind |-> "StateBackend", rootDir |-> Null, virtualMode |-> FALSE,
   stateAndStore |-> stateAndStore, id |-> n]

\* The factory testing `workspacePath !== null` instead of `workspacePath`.
InvokeFactoryNonNull(f, stateAndStore, n) ==
  IF f.workspacePath # Null
  THEN FilesystemBackend(f.workspacePath, n)
  ELSE StateBackend(stateAndStore, n)

\* The factory keeping the first StateBackend it built and returning it again.
InvokeFactoryShared(f, stateAndStore, n) ==
  IF Truthy(f.workspacePath)
  THEN FilesystemBackend(f.workspacePath, n)
  ELSE IF invocations # <<>>
       THEN invocations[1].returned
       ELSE StateBackend(stateAndStore, n)

\* The factory f invoked with a session context: (stateAndStore) => { ... },
\* constructing the n-th backend.
InvokeFactory(f, stateAndStore, n) ==
  IF Truthy(f.workspacePath)
  THEN FilesystemBackend(f.workspacePath, n)
  ELSE StateBackend(stateAndStore, n)

----------------------------------------------------------------------------
\* Inputs and configuration.

claude3 == claude \o <<"-", "3">>
gpt4 == gpt \o <<"-", "4">>
llama == <<"l", "l", "a", "m", "a">>

\* What getApiKey may return for a provider: nothing, an empty string, a key.
KeyValues == {Undefined, Str(<<>>), Str(<<"k">>)}
KeyConfigs == [{"anthropic", "openai"} -> KeyValues]
\* What getDefaultModel() may return.
DefaultModels == {claude3, gpt4, gemini, llama, <<>>}
\* The modelId arguments getModelInstance is tried on: omitted, empty, the
\* three prefixes alone and with a suffix, proper prefixes of them, the
\* prefixes in another case or another place, and unrelated identifiers.
ModelIdInputs ==
  { Undefined, Str(<<>>),
    Str(claude), Str(claude3), Str(<<"c", "l", "a", "u", "d">>),
    Str(<<"C", "l", "a", "u", "d", "e">>), Str(<<"x">> \o claude),
    Str(gpt), Str(gpt4), Str(<<"g", "p">>), Str(gpt \o claude),
    Str(gemini), Str(gemini \o <<"-", "p", "r", "o">>), Str(<<"g", "e", "m">>),
    Str(llama), Str(llama \o gemini) }

\* The configuration of the runs of Spec: an Anthropic key, no OpenAI key.
RunKeys == [anthropic |-> Str(<<"k">>), openai |-> Undefined]
RunDefault == claude3

\* The options createAgentRuntime is called with in the runs of Spec.
CreateInputs ==
  { [modelId |-> Undefined, workspacePath |-> Undefined],
    [modelId |-> Str(gpt4), workspacePath |-> Null],
    [modelId |-> Str(llama), workspacePath |-> Str(<<"/", "w">>)] }

\* The state after the module has been loaded.
InitRun ==
  /\ checkpointer = 0
  /\ nStores = 0
  /\ initCalls = 0
  /\ initState = [s \in Stores |-> "none"]
  /\ closeCalls = [s \in Stores |-> 0]
  /\ closed = [s \in Stores |-> FALSE]
  /\ factory = NoFactory
  /\ invocations = <<>>
  /\ calls = EmptyBag
  /\ nCalls = 0
  /\ raced = FALSE
  /\ overlapped = FALSE
  /\ closeStarted = FALSE
  /\ returnedVals = {}
  /\ released = {}
  /\ resolveIn = Undefined
  /\ resolveOut = NoModel

Init ==
  /\ InitRun
  /\ apiKeys = RunKeys
  /\ defaultModel = RunDefault

\* Bookkeeping at the start of a call of kind k.
Begin(k) ==
  /\ nCalls < MaxCalls
  /\ BagCardinality(calls) < MaxActive
  /\ nCalls' = nCalls + 1
  /\ overlapped' = (overlapped \/ InFlight # {})
  /\ closeStarted' = (closeStarted \/ k = "close")

----------------------------------------------------------------------------
\* getCheckpointer

\* getCheckpointer() that does not test the cached reference and constructs
\* a store on every call.
GetCheckpointerSyncAlwaysNew(r, q) ==
  LET s == nStores + 1
  IN /\ nStores' = s
     /\ checkpointer' = s
     /\ initCalls' = initCalls + 1
     /\ initState' = [initState EXCEPT ![s] = "pending"]
     /\ calls' = Becomes(r, [q EXCEPT !.pc = "awaitInit", !.target = s])
     /\ UNCHANGED <<closeCalls, closed, returnedVals>>

\* getCheckpointer() caching the store only after the await: the slip that
\* leaves `checkpointer` null while initialize() is pending.
GetCheckpointerSyncLateCache(r, q) ==
  IF checkpointer = 0
  THEN LET s == nStores + 1
       IN /\ nStores' = s
          /\ checkpointer' = 0
          /\ initCalls' = initCalls + 1
          /\ initState' = [initState EXCEPT ![s] = "pending"]
          /\ calls' = Becomes(r, [q EXCEPT !.pc = "awaitInit", !.target = s])
          /\ UNCHANGED <<closeCalls, closed, returnedVals>>
  ELSE /\ calls' = Becomes(r, [q EXCEPT !.pc = AfterGet(q.kind, FALSE),
                                        !.ret = <<checkpointer>>,
                                        !.retState = StoreState(checkpointer)])
       /\ returnedVals' = returnedVals \cup {checkpointer}
       /\ UNCHANGED storeVars

\* getCheckpointer() up to its await (or, with a cached store, its return),
\* run by the call r; q is r with what the caller has done before.
GetCheckpointerSync(r, q) ==
  IF checkpointer = 0
  THEN LET s == nStores + 1
       IN /\ nStores' = s
          /\ checkpointer' = s
          /\ initCalls' = initCalls + 1
          /\ initState' = [initState EXCEPT ![s] = "pending"]
          /\ calls' = Becomes(r, [q EXCEPT !.pc = "awaitInit", !.target = s])
          /\ UNCHANGED <<closeCalls, closed, returnedVals>>
  ELSE /\ calls' = Becomes(r, [q EXCEPT !.pc = AfterGet(q.kind, FALSE),
                                        !.ret = <<checkpointer>>,
                                        !.retState = StoreState(checkpointer)])
       /\ returnedVals' = returnedVals \cup {checkpointer}
       /\ UNCHANGED storeVars

\* getCheckpointer() after its await: initialize() has settled; q is r with
\* what the caller has noted.
GetCheckpointerAfterAwait(r, q) ==
  IF initState[r.target] = "ok"
  THEN /\ calls' = Becomes(r, [q EXCEPT !.pc = AfterGet(q.kind, FALSE),
                                        !.ret = <<checkpointer>>,
                                        !.retState = StoreState(checkpointer)])
       /\ returnedVals' = returnedVals \cup {checkpointer}
  ELSE /\ calls' = Becomes(r, [q EXCEPT !.pc = AfterGet(q.kind, TRUE),
                                        !.err = "initialize rejected"])
       /\ UNCHANGED returnedVals

\* A direct call of getCheckpointer().
CallGetCheckpointer ==
  /\ Begin("get")
  /\ raced' = (raced \/ AwaitingInit # {})
  /\ GetCheckpointerSync(NewCall("get"), NewCall("get"))
  /\ UNCHANGED <<released, cfgVars, resVars, facVars>>

\* The store settles initialize().
InitResolves(s) ==
  /\ initState[s] = "pending"
  /\ initState' = [initState EXCEPT ![s] = "ok"]
  /\ UNCHANGED <<checkpointer, nStores, initCalls, closeCalls, closed,
                 calls, histVars, cfgVars, resVars, facVars>>

InitRejects(s) ==
  /\ initState[s] = "pending"
  /\ initState' = [initState EXCEPT ![s] = "failed"]
  /\ UNCHANGED <<checkpointer, nStores, initCalls, closeCalls, closed,
                 calls, histVars, cfgVars, resVars, facVars>>

\* The call suspended in getCheckpointer() is resumed.
ResumeGetCheckpointer(r) ==
  /\ r.pc = "awaitInit"
  /\ initState[r.target] # "pending"
  /\ GetCheckpointerAfterAwait(r,
       IF r.kind = "create"
       THEN [r EXCEPT !.trace = Append(@, "getCheckpointer settled")]
       ELSE r)
  /\ UNCHANGED <<storeVars, nCalls, raced, overlapped, closeStarted, released,
                 cfgVars, resVars, facVars>>

----------------------------------------------------------------------------
\* createAgentRuntime

\* const { modelId, workspacePath = null } = options
DefaultWorkspace(w) == IF w = Undefined THEN Null ELSE w

\* createAgentRuntime(options) opening the checkpoint store before it resolves
\* the model: a failing resolution leaves a store constructed behind.
CreateAgentRuntimeSyncStoreFirst(r, options) ==
  LET m == getModelInstance(options.modelId, apiKeys, defaultModel)
      q == [r EXCEPT !.model = m,
                     !.workspace = DefaultWorkspace(options.workspacePath),
                     !.trace = <<"getModelInstance">>]
  IN IF m.out = "throw"
     THEN /\ calls' = Becomes(r, [q EXCEPT !.pc = "rejected", !.err = m.error])
          /\ IF checkpointer = 0
             THEN /\ nStores' = nStores + 1
                  /\ checkpointer' = nStores + 1
                  /\ initCalls' = initCalls + 1
                  /\ initState' = [initState EXCEPT ![nStores + 1] = "pending"]
                  /\ UNCHANGED <<closeCalls, closed>>
             ELSE UNCHANGED storeVars
          /\ UNCHANGED <<returnedVals, raced>>
     ELSE /\ raced' = (raced \/ AwaitingInit # {})
          /\ GetCheckpointerSync(r,
               [q EXCEPT !.trace =
                  IF checkpointer = 0
                  THEN Append(@, "getCheckpointer")
                  ELSE @ \o <<"getCheckpointer", "getCheckpointer settled">>])

\* createAgentRuntime(options) up to its await, run by the new call r.
CreateAgentRuntimeSync(r, options) ==
  LET m == getModelInstance(options.modelId, apiKeys, defaultModel)
      q == [r EXCEPT !.model = m,
                     !.workspace = DefaultWorkspace(options.workspacePath),
                     !.trace = <<"getModelInstance">>]
  IN IF m.out = "throw"
     THEN /\ calls' = Becomes(r, [q EXCEPT !.pc = "rejected", !.err = m.error])
          /\ UNCHANGED <<storeVars, returnedVals, raced>>
     ELSE /\ raced' = (raced \/ AwaitingInit # {})
          /\ GetCheckpointerSync(r,
               [q EXCEPT !.trace =
                  IF checkpointer = 0
                  THEN Append(@, "getCheckpointer")
                  ELSE @ \o <<"getCheckpointer", "getCheckpointer settled">>])

CallCreateAgentRuntime ==
  \E options \in CreateInputs :
    /\ Begin("create")
    /\ CreateAgentRuntimeSync(NewCall("create"), options)
    /\ UNCHANGED <<released, cfgVars, resVars, facVars>>

\* createAgentRuntime handing createDeepAgent the module-level `checkpointer`
\* (which the local constant of line 111 shadows) instead of the awaited value.
CreateAgentRuntimeAfterAwaitGlobal(r) ==
  IF r.pc = "getFailed"
  THEN calls' = Becomes(r, [r EXCEPT !.pc = "rejected"])
  ELSE calls' = Becomes(r,
         [r EXCEPT !.pc = "resolved",
                   !.trace = Append(@, "createDeepAgent"),
                   !.agent = << [model |-> r.model,
                                 checkpointer |-> checkpointer,
                                 backend |-> createBackendFactory(r.workspace)] >>])

\* createAgentRuntime swallowing the failure of getCheckpointer() and building
\* the agent without a store.
CreateAgentRuntimeAfterAwaitSwallow(r) ==
  calls' = Becomes(r,
    [r EXCEPT !.pc = "resolved",
              !.trace = Append(@, "createDeepAgent"),
              !.agent = << [model |-> r.model,
                            checkpointer |-> IF r.ret = <<>> THEN 0 ELSE r.ret[1],
                            backend |-> createBackendFactory(r.workspace)] >>])

\* createAgentRuntime after its await: the failure of getCheckpointer() is
\* rethrown, or createDeepAgent({model, checkpointer, backend}) is called.
CreateAgentRuntimeAfterAwait(r) ==
  IF r.pc = "getFailed"
  THEN calls' = Becomes(r, [r EXCEPT !.pc = "rejected"])
  ELSE calls' = Becomes(r,
         [r EXCEPT !.pc = "resolved",
                   !.trace = Append(@, "createDeepAgent"),
                   !.agent = << [model |-> r.model,
                                 checkpointer |-> r.ret[1],
                                 backend |-> createBackendFactory(r.workspace)] >>])

ResumeCreateAgentRuntime(r) ==
  /\ r.pc \in {"gotCheckpointer", "getFailed"}
  /\ CreateAgentRuntimeAfterAwait(r)
  /\ UNCHANGED <<storeVars, histVars, cfgVars, resVars, facVars>>

----------------------------------------------------------------------------
\* closeRuntime

\* closeRuntime() without its `if (checkpointer)`: with no store cached,
\* `checkpointer.close()` throws a TypeError.
CloseRuntimeSyncNoTest(r) ==
  IF checkpointer # 0
  THEN /\ closeCalls' = [closeCalls EXCEPT ![checkpointer] = @ + 1]
       /\ calls' = Becomes(r, [r EXCEPT !.pc = "awaitClose", !.target = checkpointer])
  ELSE /\ calls' = Becomes(r, [r EXCEPT !.pc = "rejected", !.err = "TypeError"])
       /\ UNCHANGED closeCalls

\* closeRuntime() up to its await (or, with no store, its return).
CloseRuntimeSync(r) ==
  IF checkpointer # 0
  THEN /\ closeCalls' = [closeCalls EXCEPT ![checkpointer] = @ + 1]
       /\ calls' = Becomes(r, [r EXCEPT !.pc = "awaitClose", !.target = checkpointer])
  ELSE /\ calls' = Becomes(r, [r EXCEPT !.pc = "resolved"])
       /\ UNCHANGED closeCalls

CallCloseRuntime ==
  /\ Begin("close")
  /\ CloseRuntimeSync(NewCall("close"))
  /\ UNCHANGED <<checkpointer, nStores, initCalls, initState, closed,
                 raced, returnedVals, released, cfgVars, resVars, facVars>>

\* The store settles the close() that the call r awaits.
CloseResolves(r) ==
  /\ r.pc = "awaitClose"
  /\ closed' = [closed EXCEPT ![r.target] = TRUE]
  /\ calls' = Becomes(r, [r EXCEPT !.pc = "closeResolved"])
  /\ UNCHANGED <<checkpointer, nStores, initCalls, initState, closeCalls,
                 histVars, cfgVars, resVars, facVars>>

CloseRejects(r) ==
  /\ r.pc = "awaitClose"
  /\ calls' = Becomes(r, [r EXCEPT !.pc = "closeRejected"])
  /\ UNCHANGED <<storeVars, histVars, cfgVars, resVars, facVars>>

\* closeRuntime() that closes the store and forgets `checkpointer = null`.
CloseRuntimeAfterAwaitKeep(r) ==
  IF r.pc = "closeResolved"
  THEN /\ released' = released \cup {r.target}
       /\ calls' = Becomes(r, [r EXCEPT !.pc = "resolved"])
       /\ UNCHANGED checkpointer
  ELSE /\ calls' = Becomes(r, [r EXCEPT !.pc = "rejected", !.err = "close rejected"])
       /\ UNCHANGED <<checkpointer, released>>

\* closeRuntime() clearing the reference in a `finally`: also when close()
\* has failed.
CloseRuntimeAfterAwaitFinally(r) ==
  IF r.pc = "closeResolved"
  THEN /\ checkpointer' = 0
       /\ released' = released \cup {r.target}
       /\ calls' = Becomes(r, [r EXCEPT !.pc = "resolved"])
  ELSE /\ checkpointer' = 0
       /\ calls' = Becomes(r, [r EXCEPT !.pc = "rejected", !.err = "close rejected"])
       /\ UNCHANGED released

\* closeRuntime() after its await.
CloseRuntimeAfterAwait(r) ==
  IF r.pc = "closeResolved"
  THEN /\ checkpointer' = 0
       /\ released' = released \cup {r.target}
       /\ calls' = Becomes(r, [r EXCEPT !.pc = "resolved"])
  ELSE /\ calls' = Becomes(r, [r EXCEPT !.pc = "rejected", !.err = "close rejected"])
       /\ UNCHANGED <<checkpointer, released>>

ResumeCloseRuntime(r) ==
  /\ r.pc \in {"closeResolved", "closeRejected"}
  /\ CloseRuntimeAfterAwait(r)
  /\ UNCHANGED <<nStores, initCalls, initState, closeCalls, closed,
                 nCalls, raced, overlapped, closeStarted, returnedVals,
                 cfgVars, resVars, facVars>>

----------------------------------------------------------------------------
\* The host receives the outcome of a settled call.
Receive(r) ==
  /\ r.pc \in {"resolved", "rejected"}
  /\ calls' = calls (-) SetToBag({r})
  /\ UNCHANGED <<storeVars, histVars, cfgVars, resVars, facVars>>

Next ==
  \/ CallGetCheckpointer
  \/ \E r \in InFlight : ResumeGetCheckpointer(r)
  \/ CallCreateAgentRuntime
  \/ \E r \in InFlight : ResumeCreateAgentRuntime(r)
  \/ CallCloseRuntime
  \/ \E r \in InFlight : ResumeCloseRuntime(r)
  \/ \E s \in Stores : InitResolves(s)
  \/ \E s \in Stores : InitRejects(s)
  \/ \E r \in InFlight : CloseResolves(r)
  \/ \E r \in InFlight : CloseRejects(r)
  \/ \E r \in InFlight : Receive(r)

Spec == Init /\ [][Next]_vars

----------------------------------------------------------------------------
\* getModelInstance on its own, under every configuration.

InitResolve ==
  /\ InitRun
  /\ apiKeys \in KeyConfigs
  /\ defaultModel \in DefaultModels

ResolveModel ==
  \E modelId \in ModelIdInputs :
    /\ resolveIn' = modelId
    /\ resolveOut' = getModelInstance(modelId, apiKeys, defaultModel)
    /\ UNCHANGED <<storeVars, calls, histVars, cfgVars, facVars>>

NextResolve == ResolveModel

SpecResolve == InitResolve /\ [][NextResolve]_vars

----------------------------------------------------------------------------
\* createAgentRuntime on its own, one call after the other, under every
\* configuration and with every modelId.

CreateOptions ==
  { [modelId |-> i, workspacePath |-> w] :
      i \in ModelIdInputs, w \in {Undefined, Str(<<"/", "w">>)} }

CallCreateAgentRuntimeAlone ==
  \E options \in CreateOptions :
    /\ calls = EmptyBag
    /\ Begin("create")
    /\ CreateAgentRuntimeSync(NewCall("create"), options)
    /\ UNCHANGED <<released, cfgVars, resVars, facVars>>

NextCreate ==
  \/ CallCreateAgentRuntimeAlone
  \/ \E r \in InFlight : ResumeGetCheckpointer(r)
  \/ \E r \in InFlight : ResumeCreateAgentRuntime(r)
  \/ \E s \in Stores : InitResolves(s)
  \/ \E s \in Stores : InitRejects(s)
  \/ \E r \in InFlight : Receive(r)

SpecCreate == InitResolve /\ [][NextCreate]_vars

----------------------------------------------------------------------------
\* The backend factory of one createAgentRuntime call on its own.

\* options.workspacePath: omitted, null, the empty string, two directories.
WorkspaceInputs ==
  {Undefined, Null, Str(<<>>), Str(<<"/", "w">>), Str(<<"/", "x">>)}

\* createAgentRuntime destructures its options and builds the factory.
BuildBackendFactory ==
  \E workspacePath \in WorkspaceInputs :
    /\ factory = NoFactory
    /\ factory' = createBackendFactory(DefaultWorkspace(workspacePath))
    /\ UNCHANGED <<storeVars, calls, histVars, cfgVars, resVars, invocations>>

\* The agent invokes the factory for a session.
InvokeBackendFactory ==
  \E stateAndStore \in Contexts :
    /\ factory # NoFactory
    /\ Len(invocations) < MaxInvocations
    /\ invocations' = Append(invocations,
         [stateAndStore |-> stateAndStore,
          returned |-> InvokeFactory(factory, stateAndStore, Len(invocations) + 1)])
    /\ UNCHANGED <<storeVars, calls, histVars, cfgVars, resVars, factory>>

NextBackend == BuildBackendFactory \/ InvokeBackendFactory

SpecBackend == Init /\ [][NextBackend]_vars

----------------------------------------------------------------------------
\* Properties

\* C1: when two getCheckpointer() calls overlap (the second starts while the
\* first still awaits initialize()) and no closeRuntime() is involved,
\* initialize() has been invoked exactly once in total (on the one store
\* constructed) and every value returned is that same store instance.
C1_OverlappingCallsShareOneInit ==
  (raced /\ ~closeStarted) =>
    /\ initCalls = 1
    /\ nStores = 1
    /\ returnedVals \subseteq {1}

\* Two overlapping calls, both settled, both holding store 1, one initialize().
C1_Witness ==
  /\ raced /\ ~closeStarted
  /\ nCalls = 2
  /\ initCalls = 1
  /\ returnedVals = {1}
  /\ BagCardinality(calls) = 2
  /\ \A r \in InFlight : r.kind = "get" /\ r.pc = "resolved" /\ r.ret = <<1>>
  /\ \E r \in InFlight : r.target = 1
  /\ \E r \in InFlight : r.target = 0

\* C2: every store getCheckpointer() returns is Ready at the moment it is
\* returned (its initialize() has completed), for every caller.
C2_ReturnedStoreIsReady ==
  \A r \in InFlight : r.retState \in {"none", "Ready"}

\* C3: after initialize() has failed in a getCheckpointer() call, the cached
\* reference does not keep the failed instance (it is cached at most while
\* the failing call has not been resumed yet), and no call is handed an
\* instance whose initialization failed.
C3_FailedInitNotCached ==
  /\ (checkpointer # 0 /\ initState[checkpointer] = "failed") =>
       \E r \in InFlight : r.pc = "awaitInit" /\ r.target = checkpointer
  /\ \A r \in InFlight : r.retState # "InitFailed"

\* C4: at most one store that has been initialised and not yet closed
\* (Ready) exists at any time.
C4_AtMostOneReady ==
  Cardinality({s \in Stores : StoreState(s) = "Ready"}) <= 1

\* The call records that a step adds to the calls in flight.
Added == {q \in BagToSet(calls') : CopiesIn(q, calls') > CopiesIn(q, calls)}
\* The step starts a call that runs getCheckpointer().
StartsGet ==
  /\ nCalls' = nCalls + 1
  /\ \E q \in Added : q.kind = "get" \/ (q.kind = "create" /\ Len(q.trace) >= 2)
\* The calls to which getCheckpointer() returns a value in the step.
JustReturned ==
  {q \in Added : q.kind \in {"get", "create"} /\ q.pc = AfterGet(q.kind, FALSE)}
\* The step completes a closeRuntime() call that closed store s.
CompletesClose(s) ==
  \E r \in InFlight :
    /\ r.kind = "close" /\ r.pc = "closeResolved" /\ r.target = s
    /\ CopiesIn(r, calls') < CopiesIn(r, calls)

\* C5: when a closeRuntime() call on an existing store completes, the cached
\* reference is empty; a getCheckpointer() call that starts with the cached
\* reference empty constructs a new store instance, never seen before, and
\* invokes its initialize(); and a store whose closeRuntime() has completed is
\* never cached nor returned again.
C5_CloseThenFreshStore ==
  [][ /\ \A s \in Stores : CompletesClose(s) => checkpointer' = 0 /\ s \in released'
      /\ (StartsGet /\ checkpointer = 0) =>
           /\ nStores' = nStores + 1
           /\ checkpointer' = nStores'
           /\ checkpointer' \notin released'
           /\ initState[checkpointer'] = "none"
           /\ initState'[checkpointer'] = "pending"
           /\ initCalls' = initCalls + 1
      /\ checkpointer' \notin released'
      /\ \A q \in JustReturned : q.ret[1] \notin released'
    ]_vars

\* A store has been closed by a completed closeRuntime(), and a later
\* getCheckpointer() has constructed and returned another, initialised store.
C5_Witness ==
  /\ 1 \in released
  /\ checkpointer = 2
  /\ \E r \in InFlight :
       r.kind = "get" /\ r.pc = "resolved" /\ r.ret = <<2>> /\ r.target = 2
       /\ r.retState = "Ready"

\* C6: when getCheckpointer() is called any number of times one after another
\* with no closeRuntime(), initialize() is invoked exactly once in total and
\* every call returns the one store instance; and a call made while the cached
\* store is Ready constructs no store, invokes no initialize() and returns the
\* cached instance.
C6_SequentialCallsReuseStore ==
  [][ /\ (~overlapped' /\ ~closeStarted') =>
           /\ initCalls' <= 1
           /\ nStores' = initCalls'
           /\ returnedVals' \subseteq {1}
           /\ (returnedVals' # {} => initCalls' = 1)
           /\ (StartsGet => initCalls' = 1)
      /\ (StartsGet /\ StoreState(checkpointer) = "Ready") =>
           /\ nStores' = nStores
           /\ initCalls' = initCalls
           /\ initState' = initState
           /\ checkpointer' = checkpointer
           /\ \E q \in JustReturned : q.ret = <<checkpointer>>
    ]_vars

\* The third of three successive calls found store 1 cached and Ready.
C6_Witness ==
  /\ ~overlapped /\ ~closeStarted
  /\ nCalls >= 3
  /\ initCalls = 1
  /\ returnedVals = {1}
  /\ \E r \in InFlight :
       r.kind = "get" /\ r.pc = "resolved" /\ r.ret = <<1>> /\ r.target = 0
       /\ r.retState = "Ready"

\* C7: each store moves through Initializing, Ready, Closed in that order:
\* close() is invoked only on a store whose initialize() has completed, a
\* store becomes Closed only from Ready, and the cached reference is cleared
\* only when the store it held is Closed.
C7_LifecycleOrder ==
  [][ /\ \A s \in Stores : closeCalls'[s] > closeCalls[s] => initState[s] = "ok"
      /\ \A s \in Stores : (closed'[s] /\ ~closed[s]) => initState[s] = "ok"
      /\ (checkpointer # 0 /\ checkpointer' = 0) => closed[checkpointer]
    ]_vars

CreateSteps ==
  <<"getModelInstance", "getCheckpointer", "getCheckpointer settled", "createDeepAgent">>

\* C8: in every createAgentRuntime call the steps happen in the order model
\* resolution, start of checkpoint acquisition, end of checkpoint
\* acquisition, createDeepAgent; and createDeepAgent receives exactly the
\* model resolved by the call, the store getCheckpointer() returned to the
\* call and the backend factory of the call's workspacePath.
C8_AssemblyOrder ==
  \A r \in InFlight : r.kind = "create" =>
    /\ Len(r.trace) <= Len(CreateSteps)
    /\ r.trace = SubSeq(CreateSteps, 1, Len(r.trace))
    /\ (Len(r.trace) >= 2 => r.model.out = "return")
    /\ (Len(r.trace) >= 3 => (r.ret # <<>> \/ r.err # ""))
    /\ r.agent # <<>> =>
         /\ r.trace = CreateSteps
         /\ r.ret # <<>>
         /\ r.agent[1].model = r.model
         /\ r.agent[1].checkpointer = r.ret[1]
         /\ r.agent[1].backend = [workspacePath |-> r.workspace]

\* A createAgentRuntime call that awaited initialize() has built its agent
\* with a string model and a workspace directory.
C8_Witness ==
  \E r \in InFlight :
    /\ r.kind = "create" /\ r.pc = "resolved" /\ r.target # 0
    /\ r.agent # <<>>
    /\ r.agent[1].model.kind = "string"
    /\ r.agent[1].backend.workspacePath = Str(<<"/", "w">>)
    /\ r.agent[1].checkpointer = r.target

\* C9: when model resolution or getCheckpointer() fails inside a
\* createAgentRuntime call, the call ends with that same failure,
\* createDeepAgent is not invoked by the call and no agent is returned.
C9_FailFast ==
  \A r \in InFlight : r.kind = "create" =>
    /\ r.model.out = "throw" =>
         /\ r.pc = "rejected"
         /\ r.err = r.model.error
         /\ r.trace = <<"getModelInstance">>
         /\ r.agent = <<>>
    /\ (r.target # 0 /\ initState[r.target] = "failed" /\ r.pc # "awaitInit") =>
         /\ r.pc \in {"getFailed", "rejected"}
         /\ r.err = "initialize rejected"
         /\ r.agent = <<>>
         /\ r.trace = SubSeq(CreateSteps, 1, 3)
    /\ r.pc = "rejected" => (r.err # "" /\ r.agent = <<>>)
    /\ r.pc = "resolved" => (r.err = "" /\ r.agent # <<>>)

\* A createAgentRuntime call has ended with the failure of initialize().
C9_Witness ==
  \E r \in InFlight :
    /\ r.kind = "create" /\ r.pc = "rejected"
    /\ r.err = "initialize rejected"
    /\ r.agent = <<>>

\* p is a prefix of the string m.
HasPrefix(m, p) == \E n \in 0..Len(m) : SubSeq(m, 1, n) = p

\* What the outcome o of a resolution must be for the identifier m.
ResolvedByPrefix(m, o) ==
  /\ o.model = m
  /\ HasPrefix(m, claude) =>
       /\ o.lookups = <<"anthropic">>
       /\ \/ o.out = "return" /\ o.kind = "ChatAnthropic"
          \/ o.out = "throw" /\ o.error = "Anthropic API key not configured"
  /\ (~HasPrefix(m, claude) /\ HasPrefix(m, gpt)) =>
       /\ o.lookups = <<"openai">>
       /\ \/ o.out = "return" /\ o.kind = "ChatOpenAI"
          \/ o.out = "throw" /\ o.error = "OpenAI API key not configured"
  /\ (~HasPrefix(m, claude) /\ ~HasPrefix(m, gpt) /\ HasPrefix(m, gemini)) =>
       /\ o.out = "throw" /\ o.error = "Gemini support coming soon"
       /\ o.lookups = <<>>
  /\ (~HasPrefix(m, claude) /\ ~HasPrefix(m, gpt) /\ ~HasPrefix(m, gemini)) =>
       /\ o.out = "return" /\ o.kind = "string"
       /\ o.lookups = <<>>

\* C10 (as stated): the default identifier is substituted when modelId is
\* omitted, and the outcome is decided by the identifier's prefix alone:
\* `claude` the Anthropic path, `gpt` the OpenAI path, `gemini` the
\* unsupported-provider failure whatever the credentials, any other
\* identifier returned unchanged with no credential looked up.
C10_AsStated ==
  resolveOut.out # "none" =>
    ResolvedByPrefix(IF resolveIn = Undefined THEN defaultModel ELSE resolveIn.v,
                     resolveOut)

\* C10 (amended): the same, the default identifier being substituted when
\* modelId is omitted or is the empty string.
C10_ResolutionByPrefix ==
  resolveOut.out # "none" =>
    ResolvedByPrefix(IF resolveIn \in {Undefined, Str(<<>>)}
                     THEN defaultModel ELSE resolveIn.v,
                     resolveOut)

\* A `gemini` identifier has been refused with both credentials configured.
C10_Witness ==
  /\ resolveIn = Str(gemini \o <<"-", "p", "r", "o">>)
  /\ Truthy(apiKeys["anthropic"]) /\ Truthy(apiKeys["openai"])
  /\ resolveOut.out = "throw"
  /\ resolveOut.error = "Gemini support coming soon"
  /\ resolveOut.lookups = <<>>

\* The provider whose client the identifier m selects ("none": neither).
Classified(m) ==
  IF HasPrefix(m, claude) THEN "anthropic"
  ELSE IF HasPrefix(m, gpt) THEN "openai"
  ELSE "none"

\* The name getApiKey is called with, and the name the messages spell.
ProviderName(p) ==
  IF p = "anthropic" THEN <<"a", "n", "t", "h", "r", "o", "p", "i", "c">> ELSE <<"o", "p", "e", "n", "a", "i">>
ProviderDisplayName(p) ==
  IF p = "anthropic" THEN <<"A", "n", "t", "h", "r", "o", "p", "i", "c">> ELSE <<"O", "p", "e", "n", "A", "I">>

Contains(text, sub) ==
  \E i \in 1..(Len(text) - Len(sub) + 1) : SubSeq(text, i, i + Len(sub) - 1) = sub

\* The createAgentRuntime calls whose identifier selects a provider that has
\* no credential (none, or the empty string).
MissingCredentialCalls ==
  {r \in InFlight :
     /\ r.kind = "create"
     /\ Classified(r.model.model) # "none"
     /\ ~Truthy(apiKeys[Classified(r.model.model)])}

\* What every such call has come to, its error naming the provider as name(p).
FailsNaming(r, name) ==
  /\ r.pc = "rejected"
  /\ r.model.out = "throw"
  /\ Contains(MessageText(r.err), name)
  /\ r.model.kind \notin {"ChatAnthropic", "ChatOpenAI"}
  /\ r.agent = <<>>

\* C11 (as stated): for every model identifier classified as Anthropic or
\* OpenAI whose provider has no configured credential, createAgentRuntime
\* fails with an error that carries the provider name `anthropic` or `openai`,
\* and no provider client is constructed.
C11_AsStated ==
  \A r \in MissingCredentialCalls :
    FailsNaming(r, ProviderName(Classified(r.model.model)))

\* C11 (amended): the same, the error being a plain Error whose message spells
\* the provider `Anthropic` or `OpenAI` ("<Provider> API key not configured").
C11_MissingCredentialFails ==
  \A r \in MissingCredentialCalls :
    /\ FailsNaming(r, ProviderDisplayName(Classified(r.model.model)))
    /\ r.err = r.model.error
    /\ r.trace = <<"getModelInstance">>

\* A `gpt` identifier has been refused because the OpenAI key is the empty
\* string, the Anthropic key being configured.
C11_Witness ==
  \E r \in MissingCredentialCalls :
    /\ r.model.model = gpt4
    /\ apiKeys["openai"] = Str(<<>>)
    /\ Truthy(apiKeys["anthropic"])
    /\ r.pc = "rejected"
    /\ r.err = "OpenAI API key not configured"

\* The backend is the real-directory backend rooted at path, in virtual-path
\* mode / the virtual backend.
RealDirectory(b, path) ==
  b.kind = "FilesystemBackend" /\ b.rootDir = path /\ b.virtualMode
Virtual(b) == b.kind = "StateBackend"

Returns == {invocations[i].returned : i \in 1..Len(invocations)}

\* C12 (as stated): for every non-null workspacePath string, the empty string
\* included, every backend the factory returns is the real-directory backend
\* rooted at that path in virtual-path mode, whatever the session context; for
\* a null workspacePath every backend is the virtual backend.
C12_AsStated ==
  \A b \in Returns :
    /\ factory.workspacePath.t = "string" => RealDirectory(b, factory.workspacePath)
    /\ factory.workspacePath = Null => Virtual(b)

\* C12 (amended): for every non-empty workspacePath string every backend the
\* factory returns is the real-directory backend rooted at that path in
\* virtual-path mode, whatever the session context; for a null (or omitted) or
\* empty workspacePath every backend is the virtual backend.
C12_BackendByWorkspacePath ==
  \A b \in Returns :
    /\ (factory.workspacePath.t = "string" /\ factory.workspacePath.v # <<>>) =>
         RealDirectory(b, factory.workspacePath)
    /\ (factory.workspacePath = Null \/ factory.workspacePath = Str(<<>>)) =>
         Virtual(b)
    /\ factory.workspacePath # Undefined

\* A factory built on a directory has been invoked for three different
\* session contexts.
C12_Witness ==
  /\ factory.workspacePath = Str(<<"/", "w">>)
  /\ Len(invocations) = 3
  /\ {invocations[i].stateAndStore : i \in 1..3} = {1, 2, 3}
  /\ \A b \in Returns : b.kind = "FilesystemBackend"

\* Where a backend keeps its files: a StateBackend in the state of the session
\* context it was constructed with, a FilesystemBackend under its directory.
FileState(b) ==
  IF b.kind = "StateBackend" THEN <<"state", b.stateAndStore>> ELSE <<"dir", b.rootDir>>

\* C13: a factory built with a null workspacePath returns, at each of any
\* number of invocations, a new virtual backend bound only to the session
\* context passed to that invocation: the backends of two distinct contexts
\* share no file state, and nothing is carried from one invocation to the next.
C13_VirtualBackendPerInvocation ==
  factory.workspacePath = Null =>
    \A i \in 1..Len(invocations) :
      /\ invocations[i].returned = StateBackend(invocations[i].stateAndStore, i)
      /\ \A j \in 1..Len(invocations) :
           /\ i # j => invocations[i].returned # invocations[j].returned
           /\ invocations[i].stateAndStore # invocations[j].stateAndStore =>
                FileState(invocations[i].returned) # FileState(invocations[j].returned)

\* The factory built with null has been invoked for context 1, for context 2
\* and for context 1 again.
C13_Witness ==
  /\ factory.workspacePath = Null
  /\ Len(invocations) = 3
  /\ invocations[1].stateAndStore = 1
  /\ invocations[2].stateAndStore = 2
  /\ invocations[3].stateAndStore = 1
  /\ invocations[3].returned.kind = "StateBackend"

\* C14: closeRuntime called while no store is cached is a no-op: it invokes no
\* close, constructs and initialises nothing, completes without error and
\* leaves the cached reference empty.
C14_CloseWithoutStoreIsNoOp ==
  [][(/\ nCalls' = nCalls + 1
      /\ checkpointer = 0
      /\ \E q \in Added : q.kind = "close")
     => /\ \A q \in Added : q.pc = "resolved" /\ q.target = 0 /\ q.err = ""
        /\ storeVars' = storeVars
        /\ checkpointer' = 0]_vars

\* closeRuntime has completed on a process that never constructed a store.
C14_Witness ==
  /\ \E r \in InFlight : r.kind = "close" /\ r.pc = "resolved" /\ r.target = 0
  /\ checkpointer = 0
  /\ nStores = 0
  /\ \A s \in Stores : closeCalls[s] = 0

\* C15: under any interleaving of createAgentRuntime and closeRuntime calls,
\* createDeepAgent is never invoked with a store on which closeRuntime has
\* already started or completed close: every agent is built with a store that
\* is Ready at the moment of construction.
C15_AgentBuiltWithReadyStore ==
  [][\A q \in Added :
       (q.kind = "create" /\ q.agent # <<>>) =>
         /\ q.agent[1].checkpointer # 0
         /\ closeCalls[q.agent[1].checkpointer] = 0
         /\ StoreState(q.agent[1].checkpointer) = "Ready"]_vars

\* C16: closeRuntime clears the cached reference only when it still refers to
\* the instance this call closed: a closeRuntime call that completes while the
\* cached reference holds another store leaves that reference in place.
C16_CloseClearsOnlyItsOwnStore ==
  [][\A s \in Stores :
       CompletesClose(s) =>
         checkpointer' = IF checkpointer = s THEN 0 ELSE checkpointer]_vars

\* C17: for every store instance, close is invoked at most once, also when
\* several closeRuntime calls overlap.
C17_CloseInvokedAtMostOnce ==
  \A s \in Stores : closeCalls[s] <= 1

\* The messages of the failures of model resolution.
ResolutionFailures ==
  {"Anthropic API key not configured", "OpenAI API key not configured",
   "Gemini support coming soon"}

\* C18: a createAgentRuntime call that fails at model resolution (missing
\* credential or unsupported provider) leaves the singleton unchanged: no store
\* is constructed, initialize is not invoked, and the cached reference is the
\* same before and after the call.
C18_FailedResolutionLeavesSingleton ==
  [][\A q \in Added :
       (nCalls' = nCalls + 1 /\ q.kind = "create" /\ q.model.out = "throw") =>
         /\ q.pc = "rejected"
         /\ q.err \in ResolutionFailures
         /\ q.ret = <<>> /\ q.target = 0 /\ q.agent = <<>>
         /\ nStores' = nStores
         /\ initCalls' = initCalls
         /\ initState' = initState
         /\ checkpointer' = checkpointer]_vars

\* A call has failed for the missing OpenAI credential while the store opened
\* by an earlier call was cached and Ready.
C18_Witness ==
  \E r \in InFlight :
    /\ r.kind = "create" /\ r.pc = "rejected"
    /\ r.err = "OpenAI API key not configured"
    /\ r.trace = <<"getModelInstance">>
    /\ checkpointer = 1 /\ initState[1] = "ok" /\ nStores = 1 /\ initCalls = 1

\* The closeRuntime() calls that the step resumes after their close() failed.
ResumedAfterFailedClose ==
  {r \in InFlight : /\ r.kind = "close" /\ r.pc = "closeRejected"
                    /\ CopiesIn(r, calls') < CopiesIn(r, calls)}

\* C19: if the store's close fails inside closeRuntime, the failure reaches
\* the caller and the call leaves the cached reference as it is: with no other
\* call overlapping, it still points to the instance whose close failed.  A
\* getCheckpointer() call that starts with a cached reference returns that
\* instance without constructing or initialising a new one.
C19_FailedCloseKeepsStore ==
  [][/\ \A r \in ResumedAfterFailedClose :
          /\ \E q \in Added : /\ q.kind = "close" /\ q.pc = "rejected"
                              /\ q.err = "close rejected" /\ q.target = r.target
          /\ storeVars' = storeVars
          /\ ~overlapped => checkpointer' = r.target
     /\ (StartsGet /\ checkpointer # 0) =>
          /\ nStores' = nStores /\ initCalls' = initCalls
          /\ checkpointer' = checkpointer
          /\ \A q \in Added : q.ret = <<checkpointer>>]_vars

\* closeRuntime has failed on the store a first call had opened, no call
\* overlapping another, and a later getCheckpointer() has returned that store.
C19_Witness ==
  /\ ~overlapped
  /\ nStores = 1 /\ initCalls = 1 /\ checkpointer = 1
  /\ closeCalls[1] = 1 /\ ~closed[1]
  /\ nCalls = 3
  /\ \E r \in InFlight : r.kind = "get" /\ r.pc = "resolved" /\ r.ret = <<1>>

====
